---- MODULE Spec2Model ----
(***************************************************************************)
(* Model of download_binaries.py: the pipeline that downloads the ffmpeg   *)
(* and ffprobe archives of the host platform, extracts the binaries and    *)
(* installs them into BINARIES_DIR.                                        *)
(*                                                                         *)
(* A behaviour is a sequence of invocations of the script on one host      *)
(* against unchanged remote content.  The file system (BINARIES_DIR and    *)
(* the scratch directory temp_downloads) persists between invocations.     *)
(***************************************************************************)
EXTENDS Integers, Sequences, FiniteSets, TLC

\* ---------------------------------------------------------------- bounds
MaxRuns == 2        \* invocations of the script in one behaviour
MaxDepth == 2       \* deepest directory nesting of a 7z member / leftover
MaxContent == 2     \* distinct file contents

\* ------------------------------------------------------- values of files
Contents == 1..MaxContent
Missing == -1       \* the archive has no member of that name
IsDir == -2         \* the tar member exists but is not a regular file
Truncated == 0      \* content of a destination whose copy was interrupted
ModeExec == 493     \* 0o755
ModeDefault == 420  \* 0o644: mode of a file created by open(.., "wb"), umask 022
Modes == {ModeDefault, ModeExec}
Absent == [content |-> Missing, mode |-> 0]

\* Directories of the scratch tree, as paths relative to temp_dir.  One name per
\* level: the archives considered hold at most one file named inner_file, so
\* the tree never offers the walk two sibling directories to order.
DirNames == {"sub"}
Dirs == UNION {[1..n -> DirNames] : n \in 0..MaxDepth}

\* ---------------------------------------------------------- the catalog
URLS ==
  [win64 |-> [ext |-> "zip",
              target_ffmpeg |-> "ffmpeg-x86_64-pc-windows-msvc.exe",
              target_ffprobe |-> "ffprobe-x86_64-pc-windows-msvc.exe",
              inner_dir |-> "ffmpeg-master-latest-win64-gpl/bin"],
   linux64 |-> [ext |-> "tar.xz",
              target_ffmpeg |-> "ffmpeg-x86_64-unknown-linux-gnu",
              target_ffprobe |-> "ffprobe-x86_64-unknown-linux-gnu",
              inner_dir |-> "ffmpeg-master-latest-linux64-gpl/bin"],
   macos_intel_ffmpeg |-> [ext |-> "zip",
              target |-> "ffmpeg-x86_64-apple-darwin",
              inner_file |-> "ffmpeg"],
   macos_intel_ffprobe |-> [ext |-> "7z",
              target |-> "ffprobe-x86_64-apple-darwin",
              inner_file |-> "ffprobe"]]

Keys == {"win64", "linux64", "macos_intel_ffmpeg", "macos_intel_ffprobe"}

Targets == {URLS["win64"].target_ffmpeg, URLS["win64"].target_ffprobe,
            URLS["linux64"].target_ffmpeg, URLS["linux64"].target_ffprobe,
            URLS["macos_intel_ffmpeg"].target, URLS["macos_intel_ffprobe"].target}

\* the binaries requested from a multi-binary archive, in loop order
Binaries(key) ==
  IF key = "win64" THEN <<"ffmpeg.exe", "ffprobe.exe">> ELSE <<"ffmpeg", "ffprobe">>

\* src_path = f"{config['inner_dir']}/{binary}"
SrcPath(config, binary) == <<config.inner_dir, binary>>

\* dest_name = target_ffmpeg if "ffmpeg" in binary else target_ffprobe
DestName(config, binary) ==
  IF binary \in {"ffmpeg.exe", "ffmpeg"} THEN config.target_ffmpeg
  ELSE config.target_ffprobe

\* --------------------------------------------------------------- platform
Platforms == {"Windows", "Linux", "Darwin", "FreeBSD"}

SelectKeysDropLast(current_os) ==
  IF current_os = "Windows" THEN <<"win64">>
  ELSE IF current_os = "Linux" THEN <<"linux64">>
  ELSE IF current_os = "Darwin" THEN <<"macos_intel_ffmpeg">>
  ELSE <<>>

\* keys_to_process of main(); <<>> stands for the unsupported branch
SelectKeys(current_os) ==
  IF current_os = "Windows" THEN <<"win64">>
  ELSE IF current_os = "Linux" THEN <<"linux64">>
  ELSE IF current_os = "Darwin" THEN <<"macos_intel_ffmpeg", "macos_intel_ffprobe">>
  ELSE <<>>

Range(s) == {s[i] : i \in 1..Len(s)}

\* ---------------------------------------------------------- remote content
\* What a URL serves: the download fails, or it yields a file that cannot be
\* opened as an archive, or an archive with the given members.
MemberVals(key) ==
  IF key = "linux64" THEN {Missing, IsDir} \cup Contents ELSE {Missing} \cup Contents

MemberPaths(key) ==
  IF key \in {"win64", "linux64"}
  THEN {SrcPath(URLS[key], Binaries(key)[i]) : i \in 1..2}
  ELSE {<<URLS[key].inner_file>>}

\* a 7z archive holds at most one file named inner_file, in any directory
SevenZTrees == {{}} \cup {{[dir |-> d, content |-> c]} : d \in Dirs, c \in Contents}

RemoteOptions(key) ==
  IF URLS[key].ext = "7z"
  THEN {[status |-> s, members |-> {}] : s \in {"fail", "corrupt"}}
       \cup {[status |-> "ok", members |-> t] : t \in SevenZTrees}
  ELSE {[status |-> s, members |-> [p \in MemberPaths(key) |-> Missing]] :
            s \in {"fail", "corrupt"}}
       \cup {[status |-> "ok", members |-> m] :
            m \in [MemberPaths(key) -> MemberVals(key)]}

\* the remote content of the selected keys (one or two of them)
RemoteConfigs(ks) ==
  IF Len(ks) = 0 THEN {[k \in {} |-> 0]}
  ELSE IF Len(ks) = 1 THEN {[k \in {ks[1]} |-> a] : a \in RemoteOptions(ks[1])}
  ELSE {[k \in {ks[1], ks[2]} |-> IF k = ks[1] THEN a ELSE b] :
           a \in RemoteOptions(ks[1]), b \in RemoteOptions(ks[2])}

VARIABLES
  current_os,       \* platform.system()
  py7zr,            \* whether "import py7zr" succeeds
  remote,           \* remote content per selected key, unchanged over the behaviour
  run,              \* number of invocations started
  pc,               \* position of the running invocation
  keys_to_process,  \* main(): keys_to_process
  idx,              \* main(): position of the for loop (1-based)
  binDirExists,     \* BINARIES_DIR exists
  scratchExists,    \* temp_downloads exists
  archives,         \* keys whose archive file (whole or partial) is in temp_downloads
  tree,             \* files named ffprobe below temp_downloads: [dir, content]
  dest,             \* BINARIES_DIR: target name -> [content, mode] or Absent
  requested,        \* keys for which download_file was called in this invocation
  installed,        \* targets for which "Installed ..." was printed
  notFound,         \* targets for which "... not found in ..." was printed
  outcome,          \* per key: none | dlfail | openfail | fault | processed
  ioFault,          \* targets whose copy/chmod raised in this invocation
  cleanup,          \* none | removed | failed | missing
  cleanupAttempts,  \* calls of shutil.rmtree(temp_dir) in this invocation
  exitStatus,       \* -1 while running, else the process exit status
  dest0,            \* BINARIES_DIR when this invocation started
  noFault           \* no local I/O fault in any invocation so far

vars == <<current_os, py7zr, remote, run, pc, keys_to_process, idx, binDirExists, scratchExists,
          archives, tree, dest, requested, installed, notFound, outcome, ioFault,
          cleanup, cleanupAttempts, exitStatus, dest0, noFault>>

\* The destination directory starts empty.  temp_downloads may pre-exist
\* (main() tolerates it) and may hold a file left by an earlier invocation
\* against older remote content whose cleanup failed.
Init ==
  /\ current_os \in Platforms
  /\ py7zr \in BOOLEAN
  /\ remote \in RemoteConfigs(SelectKeys(current_os))
  /\ run = 0
  /\ pc = "idle"
  /\ keys_to_process = <<>>
  /\ idx = 0
  /\ \E t \in SevenZTrees :
        /\ tree = t
        /\ scratchExists \in (IF t = {} THEN BOOLEAN ELSE {TRUE})
  /\ binDirExists \in BOOLEAN
  /\ archives = {}
  /\ dest = [t \in Targets |-> Absent]
  /\ requested = {}
  /\ installed = {}
  /\ notFound = {}
  /\ outcome = [k \in Keys |-> "none"]
  /\ ioFault = {}
  /\ cleanup = "none"
  /\ cleanupAttempts = 0
  /\ exitStatus = -1
  /\ dest0 = dest
  /\ noFault = TRUE

\* ------------------------------------------------------------ the installer
Faults == {"ok", "open", "copy", "chmod"}

\* shutil.copy has one more place to fail: its own copymode
CopyFaults == Faults \cup {"copymode"}

\* whether the branch of extract_and_install for this key calls os.chmod
DoesChmodNever(key) == FALSE

DoesChmod(key) == key # "win64"

\* the copy or the chmod of one binary raised
Raised(f, doChmod) == f \in {"open", "copy"} \/ (f = "chmod" /\ doChmod)

\* with open(dest_path, "wb") as target: shutil.copyfileobj(source, target)
\* followed, where the branch has it, by os.chmod(dest_path, 0o755).
\* f is where an OSError strikes: opening the destination (nothing written),
\* during the copy (destination truncated), in chmod (content written).
InstallStream(d, name, c, f, doChmod) ==
  LET baseMode == IF d[name] = Absent THEN ModeDefault ELSE d[name].mode IN
  IF f = "open" THEN d
  ELSE IF f = "copy" THEN [d EXCEPT ![name] = [content |-> Truncated, mode |-> baseMode]]
  ELSE IF f = "chmod" /\ doChmod THEN [d EXCEPT ![name] = [content |-> c, mode |-> baseMode]]
  ELSE [d EXCEPT ![name] = [content |-> c, mode |-> IF doChmod THEN ModeExec ELSE baseMode]]

\* shutil.copy(src_path, dest_path); os.chmod(dest_path, 0o755).  shutil.copy is
\* copyfile followed by copymode, which chmods the destination to the mode of
\* the extracted file (srcMode).  f is where an OSError strikes: opening the
\* destination, during the copy, in the chmod of copymode (content written,
\* mode as the file had it), in the chmod of line 71 (mode of the source).
InstallCopy(d, name, c, f, srcMode) ==
  LET baseMode == IF d[name] = Absent THEN ModeDefault ELSE d[name].mode IN
  IF f = "open" THEN d
  ELSE IF f = "copy" THEN [d EXCEPT ![name] = [content |-> Truncated, mode |-> baseMode]]
  ELSE IF f = "copymode" THEN [d EXCEPT ![name] = [content |-> c, mode |-> baseMode]]
  ELSE IF f = "chmod" THEN [d EXCEPT ![name] = [content |-> c, mode |-> srcMode]]
  ELSE [d EXCEPT ![name] = [content |-> c, mode |-> ModeExec]]

\* ------------------------------------------------- extraction strategies
\* state threaded through one call of extract_and_install
StartState(d, t) ==
  [dest |-> d, tree |-> t, installed |-> {}, notFound |-> {}, ioFault |-> {},
   raised |-> FALSE]

OnKeyErrorPropagates(st, name) ==
  [st EXCEPT !.notFound = @ \cup {name}, !.raised = TRUE]

\* except KeyError: print(f"Error: {src_path} not found in ...")
OnKeyError(st, name) == [st EXCEPT !.notFound = @ \cup {name}]

\* the copy of one located member m to the destination called name; an
\* OSError leaves the with-block and is caught by the outer "except Exception"
CopyMember(st, key, name, m, f) ==
  [st EXCEPT !.dest = InstallStream(st.dest, name, m, f, DoesChmod(key)),
             !.installed = IF Raised(f, DoesChmod(key)) THEN @ ELSE @ \cup {name},
             !.ioFault = IF Raised(f, DoesChmod(key)) THEN @ \cup {name} ELSE @,
             !.raised = Raised(f, DoesChmod(key))]

\* one iteration of "for binary in [...]" of the win64 zip and tar.xz branches;
\* after an exception that reached the outer handler the loop has ended
LoopStep(st, key, members, binary, f) ==
  LET config == URLS[key]
      name == DestName(config, binary)
      m == members[SrcPath(config, binary)]
  IN IF st.raised THEN st
     ELSE IF m = Missing THEN OnKeyError(st, name)        \* zf.open / tf.getmember
     ELSE IF m = IsDir THEN st                             \* tf.extractfile -> None
     ELSE CopyMember(st, key, name, m, f)

\* the "macos" zip branch: one member, inner_file, at the archive root
MacZip(st, key, members, f) ==
  LET config == URLS[key]
      m == members[<<config.inner_file>>]
  IN IF m = Missing THEN OnKeyError(st, config.target)
     ELSE CopyMember(st, key, config.target, m, f)

IsProperPrefix(p, q) == Len(p) < Len(q) /\ SubSeq(q, 1, Len(p)) = p

\* z.extractall(path=temp_dir): the members are written below temp_dir itself,
\* replacing a file of the same path and keeping every other file
Extractall(t, members) ==
  {g \in t : ~ \E h \in members : h.dir = g.dir} \cup members

\* the files named inner_file that os.walk(temp_dir) can reach first: the walk
\* is top-down, so a directory comes before everything below it; the order of
\* sibling directories is that of the file system
FirstMatches(t) == {g \in t : ~ \E h \in t : IsProperPrefix(h.dir, g.dir)}

NoPick == [dir |-> <<>>, content |-> Missing]

\* the 7z branch after z.extractall: the walk of temp_dir as it is now, and
\* the copy of the first match
SevenZ(st, key, pick, f, srcMode) ==
  LET config == URLS[key]
      raised == f # "ok"
  IN IF FirstMatches(st.tree) = {} THEN [st EXCEPT !.notFound = @ \cup {config.target}]
     ELSE [st EXCEPT
             !.dest = InstallCopy(st.dest, config.target, pick.content, f, srcMode),
             !.installed = IF raised THEN @ ELSE @ \cup {config.target},
             !.ioFault = IF raised THEN @ \cup {config.target} ELSE @,
             !.raised = raised]

\* extract_and_install(key, archive_path, temp_dir) once the archive is open,
\* for the zip and tar.xz branches (the 7z branch is Extract followed by Walk)
extract_and_install(st, key, members, f1, f2) ==
  LET config == URLS[key] IN
  IF config.ext = "zip" THEN
     IF key = "win64"
     THEN LoopStep(LoopStep(st, key, members, Binaries(key)[1], f1),
                   key, members, Binaries(key)[2], f2)
     ELSE IF key \in {"macos_intel_ffmpeg", "macos_intel_ffprobe"}
     THEN MacZip(st, key, members, f1)
     ELSE st
  ELSE IF config.ext = "tar.xz" THEN
     LoopStep(LoopStep(st, key, members, Binaries(key)[1], f1),
              key, members, Binaries(key)[2], f2)
  ELSE st

\* ------------------------------------------------------------- the run
ContinueBreaks(i, ks) == [pc |-> "cleanup", idx |-> i + 1]

\* the for loop of main() after entry i: the next entry, or the cleanup
Continue(i, ks) ==
  IF i + 1 > Len(ks) THEN [pc |-> "cleanup", idx |-> i + 1]
  ELSE [pc |-> "download", idx |-> i + 1]

AfterCleanupUncaught(raised) ==
  IF raised THEN [pc |-> "exited", exitStatus |-> 1]
  ELSE [pc |-> "exited", exitStatus |-> 0]

\* try: shutil.rmtree(temp_dir) / except Exception: print(...); print("Done!")
AfterCleanup(raised) == [pc |-> "exited", exitStatus |-> 0]

\* Start of the script: the import of py7zr, then main() up to the for loop.
\* os.makedirs is called for a directory that os.path.exists does not see and
\* is outside any try: when it raises (the path or a parent is a file, a
\* dangling link, not writable) the process ends with a traceback.
Launch ==
  /\ pc \in {"idle", "exited", "crashed"}
  /\ run < MaxRuns
  /\ run' = run + 1
  /\ requested' = {}
  /\ installed' = {}
  /\ notFound' = {}
  /\ outcome' = [k \in Keys |-> "none"]
  /\ ioFault' = {}
  /\ cleanup' = "none"
  /\ cleanupAttempts' = 0
  /\ dest0' = dest
  /\ IF ~ py7zr
     THEN /\ pc' = "exited"
          /\ exitStatus' = 1
          /\ UNCHANGED <<keys_to_process, idx, binDirExists, scratchExists, noFault>>
     ELSE \/ /\ ~ binDirExists                  \* os.makedirs(BINARIES_DIR) raises
             /\ pc' = "crashed"
             /\ exitStatus' = 1
             /\ noFault' = FALSE
             /\ UNCHANGED <<keys_to_process, idx, binDirExists, scratchExists>>
          \/ /\ ~ scratchExists                 \* os.makedirs(temp_dir) raises
             /\ binDirExists' = TRUE
             /\ pc' = "crashed"
             /\ exitStatus' = 1
             /\ noFault' = FALSE
             /\ UNCHANGED <<keys_to_process, idx, scratchExists>>
          \/ /\ binDirExists' = TRUE
             /\ scratchExists' = TRUE
             /\ keys_to_process' = SelectKeys(current_os)
             /\ UNCHANGED noFault
             /\ IF SelectKeys(current_os) = <<>>
                THEN /\ pc' = "exited"
                     /\ exitStatus' = 0
                     /\ idx' = 0
                ELSE /\ pc' = "download"
                     /\ exitStatus' = -1
                     /\ idx' = 1
  /\ UNCHANGED <<current_os, py7zr, remote, archives, tree, dest>>

\* if download_file(config["url"], filepath): ... for the current key.
\* urlretrieve raises when the URL cannot be served or temp_downloads is gone,
\* and also, with a good URL, for a local reason (disk full, file size limit,
\* destination path blocked).  A download that fails may already have created
\* the (partial) archive file.
Download ==
  /\ pc = "download"
  /\ LET key == keys_to_process[idx]
         ok == scratchExists /\ remote[key].status # "fail"
     IN /\ requested' = requested \cup {key}
        /\ \/ /\ ok
              /\ archives' = archives \cup {key}
              /\ pc' = "extract"
              /\ UNCHANGED <<idx, outcome, noFault>>
           \/ /\ ~ ok
              /\ outcome' = [outcome EXCEPT ![key] = "dlfail"]
              /\ pc' = Continue(idx, keys_to_process).pc
              /\ idx' = Continue(idx, keys_to_process).idx
              /\ archives' \in (IF scratchExists THEN {archives, archives \cup {key}}
                                ELSE {archives})
              /\ UNCHANGED noFault
           \/ /\ ok                               \* the local write fails
              /\ outcome' = [outcome EXCEPT ![key] = "dlfail"]
              /\ pc' = Continue(idx, keys_to_process).pc
              /\ idx' = Continue(idx, keys_to_process).idx
              /\ archives' \in {archives, archives \cup {key}}
              /\ noFault' = FALSE
  /\ UNCHANGED <<current_os, py7zr, remote, run, keys_to_process, binDirExists,
                 scratchExists, tree, dest, installed, notFound, ioFault, cleanup,
                 cleanupAttempts, exitStatus, dest0>>

\* extract_and_install(key, filepath, temp_dir) for the current key: the whole
\* call for zip and tar.xz; for 7z the opening of the archive and z.extractall,
\* after which the walk reads temp_dir again (Walk)
Extract ==
  /\ pc = "extract"
  /\ LET key == keys_to_process[idx]
         opened == key \in archives /\ remote[key].status = "ok"
         members == remote[key].members
     IN IF ~ opened
        THEN /\ outcome' = [outcome EXCEPT ![key] = "openfail"]
             /\ pc' = Continue(idx, keys_to_process).pc
             /\ idx' = Continue(idx, keys_to_process).idx
             /\ UNCHANGED <<dest, tree, installed, notFound, ioFault, noFault>>
        ELSE IF URLS[key].ext = "7z"
        THEN /\ tree' = Extractall(tree, members)
             /\ pc' = "walk"
             /\ UNCHANGED <<idx, outcome, dest, installed, notFound, ioFault, noFault>>
        ELSE \E f1 \in Faults,
                f2 \in (IF key \in {"win64", "linux64"} THEN Faults ELSE {"ok"}) :
               LET st == extract_and_install(StartState(dest, tree), key, members, f1, f2)
               IN /\ dest' = st.dest
                  /\ installed' = installed \cup st.installed
                  /\ notFound' = notFound \cup st.notFound
                  /\ ioFault' = ioFault \cup st.ioFault
                  /\ noFault' = (noFault /\ ~ st.raised)
                  /\ outcome' = [outcome EXCEPT ![key] =
                                    IF st.raised THEN "fault" ELSE "processed"]
                  /\ pc' = Continue(idx, keys_to_process).pc
                  /\ idx' = Continue(idx, keys_to_process).idx
                  /\ UNCHANGED tree
  /\ UNCHANGED <<current_os, py7zr, remote, run, keys_to_process, binDirExists,
                 scratchExists, archives, requested, cleanup, cleanupAttempts,
                 exitStatus, dest0>>

\* the rest of the 7z branch: os.walk(temp_dir), shutil.copy, os.chmod
Walk ==
  /\ pc = "walk"
  /\ LET key == keys_to_process[idx]
         cands == FirstMatches(tree)
     IN \E pick \in (IF cands = {} THEN {NoPick} ELSE cands),
           f \in CopyFaults, srcMode \in Modes :
          LET st == SevenZ(StartState(dest, tree), key, pick, f, srcMode)
          IN /\ dest' = st.dest
             /\ installed' = installed \cup st.installed
             /\ notFound' = notFound \cup st.notFound
             /\ ioFault' = ioFault \cup st.ioFault
             /\ noFault' = (noFault /\ ~ st.raised)
             /\ outcome' = [outcome EXCEPT ![key] =
                               IF st.raised THEN "fault" ELSE "processed"]
  /\ pc' = Continue(idx, keys_to_process).pc
  /\ idx' = Continue(idx, keys_to_process).idx
  /\ UNCHANGED <<current_os, py7zr, remote, run, keys_to_process, binDirExists,
                 scratchExists, archives, tree, requested, cleanup, cleanupAttempts,
                 exitStatus, dest0>>

\* the cleanup of main() and the final print
Cleanup ==
  /\ pc = "cleanup"
  /\ cleanupAttempts' = cleanupAttempts + 1
  /\ IF ~ scratchExists
     THEN /\ cleanup' = "missing"
          /\ UNCHANGED <<scratchExists, tree, archives, noFault>>
     ELSE \/ /\ cleanup' = "removed"
             /\ scratchExists' = FALSE
             /\ tree' = {}
             /\ archives' = {}
             /\ UNCHANGED noFault
          \/ /\ cleanup' = "failed"
             /\ tree' \in SUBSET tree
             /\ archives' \in SUBSET archives
             /\ noFault' = FALSE
             /\ UNCHANGED scratchExists
  /\ pc' = AfterCleanup(cleanup' # "removed").pc
  /\ exitStatus' = AfterCleanup(cleanup' # "removed").exitStatus
  /\ UNCHANGED <<current_os, py7zr, remote, run, keys_to_process, idx, binDirExists,
                 dest, requested, installed, notFound, outcome, ioFault, dest0>>

\* Environment: something else removes temp_downloads while the script runs
ExternalRemove ==
  /\ pc \in {"download", "extract", "walk", "cleanup"}
  /\ scratchExists
  /\ scratchExists' = FALSE
  /\ tree' = {}
  /\ archives' = {}
  /\ noFault' = FALSE
  /\ UNCHANGED <<current_os, py7zr, remote, run, pc, keys_to_process, idx,
                 binDirExists, dest, requested, installed, notFound, outcome, ioFault, cleanup,
                 cleanupAttempts, exitStatus, dest0>>

Next == Launch \/ Download \/ Extract \/ Walk \/ Cleanup \/ ExternalRemove

Spec == Init /\ [][Next]_vars

TypeOK ==
  /\ pc \in {"idle", "download", "extract", "walk", "cleanup", "exited", "crashed"}
  /\ run \in 0..MaxRuns
  /\ exitStatus \in {-1, 0, 1}
  /\ \A t \in Targets : dest[t] = Absent \/ dest[t].mode \in Modes

\* ------------------------------------------------------------ properties
Supported == current_os \in {"Windows", "Linux", "Darwin"}
Posix == current_os \in {"Linux", "Darwin"}

\* the catalog entries of each platform, as the specification lists them
ExpectedKeys ==
  IF current_os = "Windows" THEN {"win64"}
  ELSE IF current_os = "Linux" THEN {"linux64"}
  ELSE IF current_os = "Darwin" THEN {"macos_intel_ffmpeg", "macos_intel_ffprobe"}
  ELSE {}

\* main() ran to its end on a supported platform
Completed == pc = "exited" /\ py7zr /\ Supported

\* the archive of key was opened and its extraction ran in this invocation
Opened(key) == key \in DOMAIN remote /\ outcome[key] \in {"processed", "fault"}

Probe7z == "macos_intel_ffprobe"
ProbeTarget == URLS[Probe7z].target

\* C1: failure isolation across entries.  Whatever the outcome of each entry
\* (download failed, archive not opened, payload missing, copy or chmod
\* raised), when main() has ended every selected entry has been requested
\* and has an outcome, the cleanup has been attempted, and the exit is normal;
\* and no uncaught exception ends the run once an entry has been requested.
C1_FailureIsolation ==
  /\ Completed =>
       /\ \A k \in ExpectedKeys : k \in requested /\ outcome[k] # "none"
       /\ cleanupAttempts = 1
       /\ exitStatus = 0
  /\ pc = "crashed" => (requested = {} /\ \A k \in Keys : outcome[k] = "none")

\* the first macOS entry failed in its download, the second was installed
C1_Witness ==
  /\ Completed
  /\ current_os = "Darwin"
  /\ outcome["macos_intel_ffmpeg"] = "dlfail"
  /\ outcome[Probe7z] = "processed"
  /\ ProbeTarget \in installed

\* C2: failure scoping inside one archive.  For win64 (zip) and linux64
\* (tar.xz), when the archive was opened, exactly one of the two requested
\* members is missing, the other is a regular file and its own copy did not
\* raise, the other member is installed under its mapped name and the
\* missing one is reported; this holds for either member being the missing one.
C2_FailureScoping ==
  \A key \in {"win64", "linux64"} : \A i \in 1..2 :
    LET present == Binaries(key)[i]
        absent == Binaries(key)[3 - i]
        name == DestName(URLS[key], present)
    IN (/\ Opened(key)
        /\ remote[key].members[SrcPath(URLS[key], absent)] = Missing
        /\ remote[key].members[SrcPath(URLS[key], present)] \in Contents
        /\ name \notin ioFault)
       => /\ dest[name].content = remote[key].members[SrcPath(URLS[key], present)]
          /\ name \in installed
          /\ DestName(URLS[key], absent) \in notFound

\* the tar.xz archive lacks ffmpeg, the first of the loop, and ffprobe is installed
C2_Witness ==
  /\ Opened("linux64")
  /\ remote["linux64"].members[SrcPath(URLS["linux64"], "ffmpeg")] = Missing
  /\ URLS["linux64"].target_ffprobe \in installed
  /\ URLS["linux64"].target_ffmpeg \in notFound
  /\ dest[URLS["linux64"].target_ffmpeg] = Absent

\* C3: platform selection.  The keys for which a download is requested are
\* always among the entries of the host platform, and are exactly these
\* when main() has ended; on an unrecognised platform none is ever requested.
C3_PlatformSelection ==
  /\ requested \subseteq ExpectedKeys
  /\ (pc = "exited" /\ py7zr) => requested = ExpectedKeys
  /\ ~ Supported => (requested = {} /\ archives = {})

\* a macOS run ended with both macOS entries requested
C3_Witness ==
  /\ pc = "exited"
  /\ current_os = "Darwin"
  /\ requested = {"macos_intel_ffmpeg", "macos_intel_ffprobe"}

\* C4: every binary reported as installed exists in the destination
\* directory under its target name with complete content and, on Linux and
\* macOS, has mode 0755; this holds in every state up to the end of the run.
C4_InstalledExecutable ==
  \A t \in installed :
    /\ dest[t] # Absent
    /\ dest[t].content \in Contents
    /\ Posix => dest[t].mode = ModeExec

\* a macOS run installed both the zip payload and the 7z payload
C4_Witness ==
  /\ pc = "exited"
  /\ current_os = "Darwin"
  /\ installed = {URLS["macos_intel_ffmpeg"].target, ProbeTarget}

\* C5: final cleanup.  shutil.rmtree is not attempted while entries are
\* being processed; it is attempted only after the last entry; once main()
\* has ended on a supported platform it was attempted exactly once, and
\* whatever its result (removed, failed, directory missing) the exit is normal.
C5_FinalCleanup ==
  /\ pc \in {"download", "extract", "walk"} => (cleanupAttempts = 0 /\ cleanup = "none")
  /\ pc = "cleanup" =>
       /\ cleanupAttempts = 0
       /\ \A k \in ExpectedKeys : outcome[k] # "none"
  /\ Completed =>
       /\ cleanupAttempts = 1
       /\ cleanup \in {"removed", "failed", "missing"}
       /\ exitStatus = 0

\* the scratch directory had vanished before the cleanup; the run still ended
C5_Witness ==
  /\ Completed
  /\ cleanup = "missing"
  /\ exitStatus = 0

\* C6: exit status.  Once main() has returned (py7zr importable, both
\* directories in place), the exit status is a failure exactly when the host
\* platform is unsupported.
C6_ExitStatus ==
  (pc = "exited" /\ py7zr) => (exitStatus = IF Supported THEN 0 ELSE 1)

\* C7: idempotence.  On a supported platform, with no local I/O fault in
\* either run, the second run leaves the destination directory as the first
\* run left it, and the scratch directory is absent.
C7_Idempotent ==
  (Completed /\ run >= 2 /\ noFault) => (dest = dest0 /\ ~ scratchExists)

\* C8: depth-independent search.  When the 7z archive holds one file named
\* inner_file, in any directory, and the entry was processed with no I/O fault
\* and no interference with the scratch directory, that file is installed as
\* the target; "not found" is reported only
\* when the walked tree holds no file of that name.
C8_DepthIndependent ==
  /\ (/\ Probe7z \in DOMAIN remote
      /\ outcome[Probe7z] = "processed"
      /\ noFault
      /\ remote[Probe7z].members # {})
     => /\ ProbeTarget \in installed
        /\ \E m \in remote[Probe7z].members : dest[ProbeTarget].content = m.content
  /\ (pc = "cleanup" /\ ProbeTarget \in notFound) => tree = {}

\* C9: scratch isolation of the 7z strategy.  A file installed by the 7z
\* strategy comes from the archive of the entry being processed.
C9_ScratchIsolation ==
  (Probe7z \in DOMAIN remote /\ ProbeTarget \in installed)
     => \E m \in remote[Probe7z].members : dest[ProbeTarget].content = m.content

\* the targets an entry installs
TargetsOf(key) ==
  IF key \in {"win64", "linux64"}
  THEN {URLS[key].target_ffmpeg, URLS[key].target_ffprobe}
  ELSE {URLS[key].target}

\* the requested name behind target t is not in the archive of key
MissingInArchive(key, t) ==
  IF URLS[key].ext = "7z" THEN remote[key].members = {}
  ELSE IF key \in {"win64", "linux64"}
  THEN \E i \in 1..2 : /\ DestName(URLS[key], Binaries(key)[i]) = t
                       /\ remote[key].members[SrcPath(URLS[key], Binaries(key)[i])] = Missing
  ELSE remote[key].members[<<URLS[key].inner_file>>] = Missing

\* C10: destination untouched on early failure.  When the download of an
\* entry failed or its archive could not be opened, or when a requested
\* name is not in the archive, the destination file of the affected binary
\* is as it was when the run started.
C10_DestUntouched ==
  \A key \in DOMAIN remote : \A t \in TargetsOf(key) :
    (\/ outcome[key] \in {"dlfail", "openfail"}
     \/ (Opened(key) /\ MissingInArchive(key, t)))
    => dest[t] = dest0[t]
====
